---- MODULE Spec2Model ----
(***************************************************************************)
(* Model of the steg package: the two codecs (steg/algorithms.py), the     *)
(* injection-point resolver (steg/injection.py) and the encode / decode    *)
(* orchestration (steg/core.py).                                           *)
(*                                                                         *)
(* Texts (visible text, secret message, encoded text) are sequences of     *)
(* Unicode code points, so that ord() and chr() are the identity on the    *)
(* elements and the arithmetic of the codecs is explicit.  The injection   *)
(* point is rule text ("first-space", "word-2", ...) and is kept as a      *)
(* string.  A call that raises ValueError returns a record with ok = FALSE *)
(* and the message of the exception (without the echoed value).            *)
(***************************************************************************)
EXTENDS Integers, Sequences, FiniteSets, TLC

(***************************************************************************)
(* Small helpers on finite sets of integers.                               *)
(***************************************************************************)
Min(S) == CHOOSE m \in S : \A n \in S : m <= n

(***************************************************************************)
(* steg/algorithms.py                                                      *)
(***************************************************************************)
\* ZERO_WIDTH_MAP: bit -> carrier code point (U+200B, U+200C).
ZERO_WIDTH_MAP == ("0" :> 8203) @@ ("1" :> 8204)

\* ZERO_WIDTH_DECODE: the inverse dictionary, carrier code point -> bit.
ZERO_WIDTH_DECODE ==
    [c \in {ZERO_WIDTH_MAP[b] : b \in DOMAIN ZERO_WIDTH_MAP} |->
        CHOOSE b \in DOMAIN ZERO_WIDTH_MAP : ZERO_WIDTH_MAP[b] = c]

\* TAG_BASE = 0xE0000.
TAG_BASE == 917504

\* The binary digits of n >= 0, most significant first, no padding ('b').
RECURSIVE Binary(_)
Binary(n) ==
    LET d == IF n % 2 = 0 THEN "0" ELSE "1"
    IN  IF n < 2 THEN <<d>> ELSE Append(Binary(n \div 2), d)

\* Mutant of Format08b: the width of the format is 7 ('07b').
Format07b(n) ==
    LET b == Binary(n)
    IN  IF Len(b) >= 7 THEN b ELSE [i \in 1..(7 - Len(b)) |-> "0"] \o b

\* format(n, '08b'): the binary digits of n, zero-padded on the left to a
\* minimum width of 8; a value that needs more digits keeps them all.
Format08b(n) ==
    LET b == Binary(n)
    IN  IF Len(b) >= 8 THEN b ELSE [i \in 1..(8 - Len(b)) |-> "0"] \o b

\* ''.join(format(ord(char), '08b') for char in secret_message)
RECURSIVE BinarySecret(_)
BinarySecret(secret_message) ==
    IF secret_message = <<>> THEN <<>>
    ELSE Format08b(Head(secret_message)) \o BinarySecret(Tail(secret_message))

\* ''.join(d.get(x, '') for x in s): the elements of s that are keys of d,
\* each replaced by its value.
JoinGet(d, s) ==
    LET kept == SelectSeq(s, LAMBDA x : x \in DOMAIN d)
    IN  [i \in 1..Len(kept) |-> d[kept[i]]]

encode_zero_width(secret_message) ==
    JoinGet(ZERO_WIDTH_MAP, BinarySecret(secret_message))

\* Mutant of encode_tag: the test ord(char) <= 0x7F is missing.
encode_tag_no_skip(secret_message) ==
    [i \in 1..Len(secret_message) |-> TAG_BASE + secret_message[i]]

encode_tag(secret_message) ==
    LET ascii == SelectSeq(secret_message, LAMBDA c : c <= 127)
    IN  [i \in 1..Len(ascii) |-> TAG_BASE + ascii[i]]

\* int(byte, 2) for a sequence of binary digits.
RECURSIVE IntBase2(_)
IntBase2(byte) ==
    IF byte = <<>> THEN 0
    ELSE 2 * IntBase2(SubSeq(byte, 1, Len(byte) - 1))
         + (IF byte[Len(byte)] = "1" THEN 1 ELSE 0)

\* Mutant of decode_zero_width: the trailing slice of fewer than 8 digits is
\* converted too.
decode_zero_width_keep_partial(encoded_text) ==
    LET binary_secret == JoinGet(ZERO_WIDTH_DECODE, encoded_text)
    IN  [k \in 1..((Len(binary_secret) + 7) \div 8) |->
            IntBase2(SubSeq(binary_secret, 8 * (k - 1) + 1,
                            Min({8 * k, Len(binary_secret)})))]

\* range(0, len(binary_secret), 8) visits ceil(len / 8) slices; only the
\* slices of length 8 contribute, which are the first len \div 8 of them.
\* chr() of an 8-bit value never raises, so the except branch is dead.
decode_zero_width(encoded_text) ==
    LET binary_secret == JoinGet(ZERO_WIDTH_DECODE, encoded_text)
    IN  [k \in 1..(Len(binary_secret) \div 8) |->
            IntBase2(SubSeq(binary_secret, 8 * (k - 1) + 1, 8 * k))]

\* Mutant of decode_tag: the lower bound of the range test is missing.
decode_tag_no_lower_bound(encoded_text) ==
    LET tags == SelectSeq(encoded_text, LAMBDA c : c <= TAG_BASE + 127)
    IN  [i \in 1..Len(tags) |-> tags[i] - TAG_BASE]

decode_tag(encoded_text) ==
    LET tags == SelectSeq(encoded_text,
                          LAMBDA c : TAG_BASE <= c /\ c <= TAG_BASE + 127)
    IN  [i \in 1..Len(tags) |-> tags[i] - TAG_BASE]

(***************************************************************************)
(* steg/injection.py                                                       *)
(***************************************************************************)
\* str.isspace() on one character: the code points Python treats as
\* whitespace (also the separators of str.split()).
Whitespace ==
    (9..13) \cup (28..32) \cup {133, 160, 5760} \cup (8192..8202)
    \cup {8232, 8233, 8239, 8287, 12288}

isspace(c) == c \in Whitespace

\* Mutant of split: split(' '), the pieces between single spaces, the empty
\* ones included.
split_on_space(text) ==
    LET n      == Len(text)
        cuts   == {i \in 1..n : text[i] = 32}
        nth(k) == IF k = 0 THEN 0
                  ELSE IF k > Cardinality(cuts) THEN n + 1
                  ELSE CHOOSE i \in cuts : Cardinality({j \in cuts : j <= i}) = k
    IN  [k \in 1..(Cardinality(cuts) + 1) |-> SubSeq(text, nth(k - 1) + 1, nth(k) - 1)]

\* str.split(): the maximal runs of non-whitespace characters, in order.
split(text) ==
    LET n      == Len(text)
        starts == {i \in 1..n : ~isspace(text[i]) /\ (i = 1 \/ isspace(text[i - 1]))}
        ends   == {i \in 1..n : ~isspace(text[i]) /\ (i = n \/ isspace(text[i + 1]))}
        nth(S, k) == CHOOSE i \in S : Cardinality({j \in S : j <= i}) = k
    IN  [k \in 1..Cardinality(starts) |-> SubSeq(text, nth(starts, k), nth(ends, k))]

\* str.find(sub, start): lowest 0-based index >= start at which sub occurs,
\* or -1.
find(text, sub, start) ==
    LET hits == {p \in start..(Len(text) - Len(sub)) :
                    SubSeq(text, p + 1, p + Len(sub)) = sub}
    IN  IF hits = {} THEN -1 ELSE Min(hits)

\* Mutant of word_end: each word is searched from the start of the text
\* (visible_text.find(words[i])).
word_end_global(visible_text, words, i) ==
    IF i = 0 THEN 0
    ELSE find(visible_text, words[i], 0) + Len(words[i])

\* Mutant of word_end: the loop runs once more (range(word_num + 1)) when
\* there is a next word.
RECURSIVE word_loop_mutant(_, _, _)
word_loop_mutant(visible_text, words, i) ==
    IF i = 0 THEN 0
    ELSE find(visible_text, words[i], word_loop_mutant(visible_text, words, i - 1))
         + Len(words[i])

word_end_one_more(visible_text, words, i) ==
    word_loop_mutant(visible_text, words, IF i < Len(words) THEN i + 1 ELSE i)

\* The loop of lines 24-26 after i iterations.
RECURSIVE word_end(_, _, _)
word_end(visible_text, words, i) ==
    IF i = 0 THEN 0
    ELSE find(visible_text, words[i], word_end(visible_text, words, i - 1))
         + Len(words[i])

\* str.startswith(prefix)
startswith(s, prefix) ==
    Len(s) >= Len(prefix) /\ SubSeq(s, 1, Len(prefix)) = prefix

\* s.split("-"): the pieces of s between the hyphens (always at least one).
RECURSIVE split_hyphen(_)
split_hyphen(s) ==
    LET hy == {i \in 1..Len(s) : SubSeq(s, i, i) = "-"}
    IN  IF hy = {} THEN <<s>>
        ELSE <<SubSeq(s, 1, Min(hy) - 1)>>
             \o split_hyphen(SubSeq(s, Min(hy) + 1, Len(s)))

Digits == {"0", "1", "2", "3", "4", "5", "6", "7", "8", "9"}

DigitValue(d) == CHOOSE v \in 0..9 : SubSeq("0123456789", v + 1, v + 1) = d

RECURSIVE DecimalValue(_)
DecimalValue(s) ==
    IF Len(s) = 0 THEN 0
    ELSE 10 * DecimalValue(SubSeq(s, 1, Len(s) - 1))
         + DigitValue(SubSeq(s, Len(s), Len(s)))

\* str.strip() restricted to the space character.
RECURSIVE strip(_)
strip(s) ==
    IF Len(s) > 0 /\ SubSeq(s, 1, 1) = " " THEN strip(SubSeq(s, 2, Len(s)))
    ELSE IF Len(s) > 0 /\ SubSeq(s, Len(s), Len(s)) = " "
         THEN strip(SubSeq(s, 1, Len(s) - 1))
    ELSE s

\* int(s) on ASCII text: surrounding spaces are stripped, one sign is
\* allowed, then at least one decimal digit and nothing else.  Returns
\* [ok |-> TRUE, value |-> n], or [ok |-> FALSE] where int() raises
\* ValueError.
int(s) ==
    LET t      == strip(s)
        signed == Len(t) > 0 /\ SubSeq(t, 1, 1) \in {"+", "-"}
        body   == IF signed THEN SubSeq(t, 2, Len(t)) ELSE t
        valid  == /\ Len(body) > 0
                  /\ \A i \in 1..Len(body) : SubSeq(body, i, i) \in Digits
    IN  IF ~valid THEN [ok |-> FALSE]
        ELSE [ok    |-> TRUE,
              value |-> IF signed /\ SubSeq(t, 1, 1) = "-"
                        THEN 0 - DecimalValue(body) ELSE DecimalValue(body)]

Return(pos) == [ok |-> TRUE, pos |-> pos]
Raise(msg)  == [ok |-> FALSE, error |-> msg]

find_injection_point(visible_text, injection_point) ==
    IF injection_point = "first-space" THEN
        LET spaces == {i \in 1..Len(visible_text) : isspace(visible_text[i])}
        IN  IF spaces # {} THEN Return(Min(spaces))
            ELSE Raise("No whitespace found for first-space injection")
    ELSE IF injection_point = "end" THEN
        Return(Len(visible_text))
    ELSE IF startswith(injection_point, "word-") THEN
        LET word_num == int(split_hyphen(injection_point)[2])
            words    == split(visible_text)
        IN  IF ~word_num.ok THEN Raise("Invalid word number")
            ELSE IF word_num.value < 1 \/ word_num.value > Len(words)
                 THEN Raise("Invalid word number")
            ELSE Return(word_end(visible_text, words, word_num.value))
    ELSE IF startswith(injection_point, "char-") THEN
        LET char_pos == int(split_hyphen(injection_point)[2])
        IN  IF ~char_pos.ok THEN Raise("Invalid character position")
            ELSE IF char_pos.value < 0 \/ char_pos.value > Len(visible_text)
                 THEN Raise("Invalid character position")
            ELSE Return(char_pos.value)
    ELSE Raise("Unknown injection point")

(***************************************************************************)
(* steg/core.py                                                            *)
(***************************************************************************)
MAX_SECRET_LENGTH == 10000
MAX_VISIBLE_LENGTH == 100000

\* The result of a successful encode: the text returned and the characters
\* named by the warning printed in TAG mode (empty when none is printed).
Encoded(text, skipped) == [ok |-> TRUE, text |-> text, warning |-> skipped]

\* The input checks at the head of encode: the first one that fails raises.
validate(visible_text, secret_message) ==
    IF Len(visible_text) = 0
    THEN Raise("Visible text cannot be empty for encoding.")
    ELSE IF Len(visible_text) > MAX_VISIBLE_LENGTH
    THEN Raise("Visible text too long")
    ELSE IF Len(secret_message) > MAX_SECRET_LENGTH
    THEN Raise("Secret message too long")
    ELSE [ok |-> TRUE]

\* Mutant of splice: the carrier is appended, the position is ignored.
splice_at_end(visible_text, inject_pos, hidden_encoding) ==
    visible_text \o hidden_encoding

\* Mutant of splice: the slice after the carrier starts one character early
\* (visible_text[inject_pos - 1:]).
splice_overlapping(visible_text, inject_pos, hidden_encoding) ==
    SubSeq(visible_text, 1, inject_pos) \o hidden_encoding
    \o SubSeq(visible_text, inject_pos, Len(visible_text))

\* visible_text[:inject_pos] + hidden_encoding + visible_text[inject_pos:]
splice(visible_text, inject_pos, hidden_encoding) ==
    SubSeq(visible_text, 1, inject_pos) \o hidden_encoding
    \o SubSeq(visible_text, inject_pos + 1, Len(visible_text))

\* encode once the input checks have passed: resolve the injection point,
\* run the codec of the method, splice.
encode_checked(visible_text, secret_message, method, injection_point) ==
    LET inject == find_injection_point(visible_text, injection_point)
    IN  IF ~inject.ok THEN inject
        ELSE IF method = "zero-width"
        THEN Encoded(splice(visible_text, inject.pos,
                            encode_zero_width(secret_message)), <<>>)
        ELSE IF method = "tag"
        THEN Encoded(splice(visible_text, inject.pos, encode_tag(secret_message)),
                     SelectSeq(secret_message, LAMBDA c : c > 127))
        ELSE Raise("Unknown encoding method")

\* Mutant of encode: the injection point is resolved before the inputs are
\* checked.
encode_resolving_first(visible_text, secret_message, method, injection_point) ==
    LET inject  == find_injection_point(visible_text, injection_point)
        checked == validate(visible_text, secret_message)
    IN  IF ~inject.ok THEN inject
        ELSE IF ~checked.ok THEN checked
        ELSE encode_checked(visible_text, secret_message, method, injection_point)

encode(visible_text, secret_message, method, injection_point) ==
    LET checked == validate(visible_text, secret_message)
    IN  IF ~checked.ok THEN checked
        ELSE encode_checked(visible_text, secret_message, method, injection_point)

Decoded(secret) == [ok |-> TRUE, secret |-> secret]

\* Mutant of decode: auto does not fall back to the tag result.
decode_zero_width_only(text_with_hidden_message, method) ==
    IF method = "auto" \/ method = "zero-width"
    THEN Decoded(decode_zero_width(text_with_hidden_message))
    ELSE IF method = "tag"
    THEN Decoded(decode_tag(text_with_hidden_message))
    ELSE Raise("Unknown decoding method")

\* Mutant of decode: auto prefers the tag result.
decode_tag_first(text_with_hidden_message, method) ==
    IF method = "auto" THEN
        LET zero_width_result == decode_zero_width(text_with_hidden_message)
            tag_result        == decode_tag(text_with_hidden_message)
        IN  Decoded(IF tag_result # <<>> THEN tag_result
                    ELSE zero_width_result)
    ELSE IF method = "zero-width"
    THEN Decoded(decode_zero_width(text_with_hidden_message))
    ELSE IF method = "tag"
    THEN Decoded(decode_tag(text_with_hidden_message))
    ELSE Raise("Unknown decoding method")

decode(text_with_hidden_message, method) ==
    IF method = "auto" THEN
        LET zero_width_result == decode_zero_width(text_with_hidden_message)
            tag_result        == decode_tag(text_with_hidden_message)
        IN  Decoded(IF zero_width_result # <<>> THEN zero_width_result
                    ELSE tag_result)
    ELSE IF method = "zero-width"
    THEN Decoded(decode_zero_width(text_with_hidden_message))
    ELSE IF method = "tag"
    THEN Decoded(decode_tag(text_with_hidden_message))
    ELSE Raise("Unknown decoding method")

(***************************************************************************)
(* Inputs.                                                                 *)
(***************************************************************************)
\* ord() of a space or an ASCII letter written as a one-character string.
ord(ch) ==
    LET upper == "ABCDEFGHIJKLMNOPQRSTUVWXYZ"
        lower == "abcdefghijklmnopqrstuvwxyz"
        at(s) == {i \in 1..Len(s) : SubSeq(s, i, i) = ch}
    IN  IF ch = " " THEN 32
        ELSE IF at(upper) # {} THEN 64 + Min(at(upper))
        ELSE 96 + Min(at(lower))

\* The code points of an ASCII string literal.
Text(s) == [i \in 1..Len(s) |-> ord(SubSeq(s, i, i))]

\* All sequences over S of length at most n.
RECURSIVE SeqsUpTo(_, _)
SeqsUpTo(S, n) ==
    IF n = 0 THEN {<<>>}
    ELSE LET shorter == SeqsUpTo(S, n - 1)
         IN  shorter \cup {Append(s, c) : s \in shorter, c \in S}

MaxVisibleLen == 2
MaxSecretLen == 1

\* Visible characters: space, "a", ZERO WIDTH NON-JOINER (a zero-width
\* carrier) and TAG LATIN SMALL LETTER A (a tag carrier).
VisibleAlphabet == {32, 97, ZERO_WIDTH_MAP["1"], TAG_BASE + 97}

\* Secret characters: "a", U+00E9 (above 0x7F, within 8 bits) and U+0100
\* (needs 9 bits).
SecretAlphabet == {97, 233, 256}

\* The texts of the scenarios of test_steg.py.
QuickBrownFox == Text("The quick brown fox")
HelloWorld == Text("Hello world")
Helloworld == Text("Helloworld")
SecretX == Text("x")
SecretTest == Text("test")

\* Texts with a repeated word and with a word that occurs inside another.
RepeatedWords == Text("b ab b")
SubstringWord == Text("ab b")

\* Visible texts within the limit (the empty text included).
VisibleTexts ==
    SeqsUpTo(VisibleAlphabet, MaxVisibleLen)
    \cup {QuickBrownFox, HelloWorld, Helloworld, RepeatedWords, SubstringWord}

\* Secrets within the limit.
Secrets ==
    SeqsUpTo(SecretAlphabet, MaxSecretLen)
    \cup {SecretX, SecretTest, <<256, 97>>}

\* One text and one secret just above the limits of core.py.
TooLongVisible == [i \in 1..(MAX_VISIBLE_LENGTH + 1) |-> 97]
TooLongSecret == [i \in 1..(MAX_SECRET_LENGTH + 1) |-> 97]

\* The (visible text, secret) pairs a session starts from: every pair within
\* the limits, and the oversized inputs paired with a few others.
Inputs ==
    (VisibleTexts \X Secrets)
    \cup ({TooLongVisible} \X {SecretX, TooLongSecret})
    \cup ({<<>>, HelloWorld} \X {TooLongSecret})

EncodeMethods == {"zero-width", "tag", "base64"}

DecodeMethods == {"auto", "zero-width", "tag", "base64"}

InjectionPoints ==
    {"first-space", "end", "word-0", "word-1", "word-2", "word-3",
     "char--1", "char-0", "char-1", "char-2", "char-3",
     "word-x", "word-2-x", "char-3-4", "middle"}

(***************************************************************************)
(* State: the inputs of the session, the placement and the outcome of the *)
(* last encode call, and the text, the method and the outcome of the last  *)
(* decode call.                                                            *)
(***************************************************************************)
VARIABLES visible_text, secret_message, method, injection_point, encoded,
          text_with_hidden_message, decode_method, decoded

vars == <<visible_text, secret_message, method, injection_point, encoded,
          text_with_hidden_message, decode_method, decoded>>

\* No call has been made yet.
NoResult == [ok |-> FALSE, error |-> "not called"]

Init ==
    /\ \E in \in Inputs : visible_text = in[1] /\ secret_message = in[2]
    /\ method \in EncodeMethods
    /\ injection_point = "first-space"
    /\ encoded = NoResult
    /\ text_with_hidden_message = <<>>
    /\ decode_method = "auto"
    /\ decoded = NoResult

\* encode(visible_text, secret_message, method, ip); the outcome of an
\* earlier decode is dropped.
Encode(ip) ==
    /\ injection_point' = ip
    /\ encoded' = encode(visible_text, secret_message, method, ip)
    /\ text_with_hidden_message' = <<>>
    /\ decode_method' = "auto"
    /\ decoded' = NoResult
    /\ UNCHANGED <<visible_text, secret_message, method>>

\* decode(text, m) on the text the last encode returned.
DecodeEncoded(m) ==
    /\ encoded.ok
    /\ text_with_hidden_message' = encoded.text
    /\ decode_method' = m
    /\ decoded' = decode(encoded.text, m)
    /\ UNCHANGED <<visible_text, secret_message, method, injection_point, encoded>>

\* decode(text, m) on the visible text as it is; the outcome of an earlier
\* encode is dropped.
DecodePlain(m) ==
    /\ injection_point' = "first-space"
    /\ encoded' = NoResult
    /\ text_with_hidden_message' = visible_text
    /\ decode_method' = m
    /\ decoded' = decode(visible_text, m)
    /\ UNCHANGED <<visible_text, secret_message, method>>

Next ==
    \/ \E ip \in InjectionPoints : Encode(ip)
    \/ \E m \in DecodeMethods : DecodeEncoded(m)
    \/ \E m \in DecodeMethods : DecodePlain(m)

Spec == Init /\ [][Next]_vars

(***************************************************************************)
(* Vocabulary of the properties.                                           *)
(***************************************************************************)
\* The carrier alphabet of a method.
CarrierAlphabet(m) ==
    IF m = "zero-width" THEN {8203, 8204}
    ELSE IF m = "tag" THEN 917504..917631
    ELSE {}

AllCarriers == CarrierAlphabet("zero-width") \cup CarrierAlphabet("tag")

\* The number of characters of text that belong to S.
Count(text, S) == Len(SelectSeq(text, LAMBDA c : c \in S))

\* text with every character of S deleted.
Without(text, S) == SelectSeq(text, LAMBDA c : c \notin S)

\* The secrets a method represents: ASCII for tag, one byte for zero-width.
Representable(secret, m) ==
    \A i \in 1..Len(secret) : secret[i] <= (IF m = "tag" THEN 127 ELSE 255)

\* The last call was an encode / a decode of the encoded text / a decode of
\* the visible text.
AfterEncode == encoded # NoResult /\ decoded = NoResult
AfterDecodeEncoded == encoded.ok /\ decoded # NoResult
AfterDecodePlain == encoded = NoResult /\ decoded # NoResult

(***************************************************************************)
(* Properties.                                                             *)
(***************************************************************************)
\* C1 as stated: after encode succeeded with a representable secret,
\* decoding the encoded text with the same method returns the secret, for
\* every visible text.
C1_RoundTripAnyVisible ==
    (AfterDecodeEncoded /\ decode_method = method
     /\ Representable(secret_message, method))
    => (decoded.ok /\ decoded.secret = secret_message)

\* C1 amended: the round trip holds when the visible text holds no character
\* of the carrier alphabet of the method.
C1_RoundTrip ==
    (AfterDecodeEncoded /\ decode_method = method
     /\ Representable(secret_message, method)
     /\ Count(visible_text, CarrierAlphabet(method)) = 0)
    => (decoded.ok /\ decoded.secret = secret_message)

\* A zero-width round trip of a non-ASCII secret placed after the first word.
C1_Witness ==
    /\ AfterDecodeEncoded /\ decode_method = method /\ method = "zero-width"
    /\ secret_message = <<233>> /\ injection_point = "word-1"
    /\ Count(visible_text, CarrierAlphabet(method)) = 0
    /\ decoded.secret = secret_message

\* C2 as stated: deleting the carrier alphabet of the method from the encoded
\* text gives back the visible text, for every visible text.
C2_RemovableAnyVisible ==
    encoded.ok => Without(encoded.text, CarrierAlphabet(method)) = visible_text

\* C2 amended: deleting the carrier alphabet of the method from the encoded
\* text gives back the visible text when the visible text holds no character
\* of that alphabet.
C2_Removable ==
    (encoded.ok /\ Count(visible_text, CarrierAlphabet(method)) = 0)
    => Without(encoded.text, CarrierAlphabet(method)) = visible_text

\* A carrier spliced inside the visible text.
C2_Witness ==
    /\ encoded.ok /\ AfterEncode
    /\ Count(visible_text, CarrierAlphabet(method)) = 0
    /\ injection_point = "char-1" /\ Len(visible_text) > 1
    /\ Len(encoded.text) > Len(visible_text)
    /\ Without(encoded.text, CarrierAlphabet(method)) = visible_text

\* C3 as stated: on a text with a zero-width carrier and a tag carrier, auto
\* returns the zero-width result.
C3_AutoAlwaysZeroWidth ==
    (decoded # NoResult /\ decode_method = "auto"
     /\ Count(text_with_hidden_message, CarrierAlphabet("zero-width")) >= 1
     /\ Count(text_with_hidden_message, CarrierAlphabet("tag")) >= 1)
    => decoded.secret = decode_zero_width(text_with_hidden_message)

\* C3 amended: on a text with a tag carrier, auto returns the zero-width
\* result when the text holds at least 8 zero-width carriers, and the tag
\* result when it holds 1 to 7 of them.
C3_AutoPriority ==
    (decoded # NoResult /\ decode_method = "auto"
     /\ Count(text_with_hidden_message, CarrierAlphabet("zero-width")) >= 1
     /\ Count(text_with_hidden_message, CarrierAlphabet("tag")) >= 1)
    => /\ decoded.ok
       /\ Count(text_with_hidden_message, CarrierAlphabet("zero-width")) >= 8
          => decoded.secret = decode_zero_width(text_with_hidden_message)
       /\ Count(text_with_hidden_message, CarrierAlphabet("zero-width")) < 8
          => decoded.secret = decode_tag(text_with_hidden_message)

\* Auto on a text whose two decodings are non-empty and differ.
C3_Witness ==
    /\ decoded # NoResult /\ decode_method = "auto"
    /\ Count(text_with_hidden_message, CarrierAlphabet("zero-width")) >= 8
    /\ decode_tag(text_with_hidden_message) # <<>>
    /\ decode_tag(text_with_hidden_message)
           # decode_zero_width(text_with_hidden_message)
    /\ decoded.secret = decode_zero_width(text_with_hidden_message)

\* C4 as stated, over two successive encodes of the same visible text, secret
\* and method: both encoded texts decode to the same secret, and they differ
\* whenever the two rules resolve to different offsets.
C4_PlacementInvarianceAny ==
    [][(encoded.ok /\ encoded'.ok)
       => /\ decode(encoded.text, method).secret
                = decode(encoded'.text, method).secret
          /\ find_injection_point(visible_text, injection_point).pos
                # find_injection_point(visible_text, injection_point').pos
             => encoded.text # encoded'.text]_vars

\* C4 amended: when the visible text holds no character of the carrier
\* alphabet of the method, both encoded texts decode to the same secret, and
\* they differ whenever the two rules resolve to different offsets and the
\* carrier is not empty.
C4_PlacementInvariance ==
    [][(encoded.ok /\ encoded'.ok
        /\ Count(visible_text, CarrierAlphabet(method)) = 0)
       => /\ decode(encoded.text, method).secret
                = decode(encoded'.text, method).secret
          /\ (/\ find_injection_point(visible_text, injection_point).pos
                    # find_injection_point(visible_text, injection_point').pos
              /\ Len(encoded.text) > Len(visible_text))
             => encoded.text # encoded'.text]_vars

\* An encode at the end of a carrier-free text with a non-empty carrier, where
\* first-space resolves to another offset and gives another encoded text with
\* the same decoding.
C4_Witness ==
    /\ AfterEncode /\ encoded.ok /\ injection_point = "end"
    /\ Count(visible_text, CarrierAlphabet(method)) = 0
    /\ Len(encoded.text) > Len(visible_text)
    /\ find_injection_point(visible_text, "first-space").ok
    /\ find_injection_point(visible_text, "first-space").pos # Len(visible_text)
    /\ encode(visible_text, secret_message, method, "first-space").text
           # encoded.text
    /\ decode(encode(visible_text, secret_message, method, "first-space").text,
              method) = decode(encoded.text, method)

\* Bit k (1 = most significant) of the low 8 bits of v.
BitOfByte(v, k) == IF ((v % 256) \div (2 ^ (8 - k))) % 2 = 1 THEN "1" ELSE "0"

\* C5 as stated: the zero-width carrier of a secret has exactly 8 characters
\* per secret character, the big-endian bits of its code point modulo 256.
C5_EightBitsPerChar ==
    (AfterEncode /\ encoded.ok /\ method = "zero-width")
    => LET carrier == encode_zero_width(secret_message)
       IN  /\ Len(carrier) = 8 * Len(secret_message)
           /\ Len(encoded.text) = Len(visible_text) + 8 * Len(secret_message)
           /\ \A i \in 1..Len(secret_message) : \A k \in 1..8 :
                 carrier[8 * (i - 1) + k]
                     = ZERO_WIDTH_MAP[BitOfByte(secret_message[i], k)]

\* C6: when the visible text holds no carrier character and the secret is
\* not empty and representable, decoding the encoded text with auto returns
\* the secret, for both methods; it is the zero-width result when that is
\* not empty and the tag result otherwise.
C6_AutoRecovers ==
    (AfterDecodeEncoded /\ decode_method = "auto"
     /\ Count(visible_text, AllCarriers) = 0
     /\ secret_message # <<>> /\ Representable(secret_message, method))
    => /\ decoded.ok /\ decoded.secret = secret_message
       /\ decoded.secret
              = (IF decode_zero_width(text_with_hidden_message) # <<>>
                 THEN decode_zero_width(text_with_hidden_message)
                 ELSE decode_tag(text_with_hidden_message))

\* Auto falls through to the tag result on a tag encoding.
C6_Witness ==
    /\ AfterDecodeEncoded /\ decode_method = "auto" /\ method = "tag"
    /\ visible_text = HelloWorld /\ secret_message = SecretTest
    /\ decode_zero_width(text_with_hidden_message) = <<>>
    /\ decoded.secret = secret_message

\* C7: decode fails exactly for a method other than auto, zero-width and
\* tag, and returns the empty string for each of the three on a text without
\* carrier characters.
C7_NoCarrierDecode ==
    decoded # NoResult
    => /\ decoded.ok <=> decode_method \in {"auto", "zero-width", "tag"}
       /\ (decode_method \in {"auto", "zero-width", "tag"}
           /\ Count(text_with_hidden_message, AllCarriers) = 0)
          => decoded.secret = <<>>

\* Ordinary text decoded with the tag method.
C7_Witness ==
    /\ AfterDecodePlain /\ decode_method = "tag"
    /\ text_with_hidden_message = HelloWorld
    /\ decoded.ok /\ decoded.secret = <<>>

\* C8: encode reports the empty visible text, then the visible text above
\* its limit, then the secret above its limit, whatever the placement rule
\* and the method are.
C8_ValidationFirst ==
    AfterEncode
    => /\ Len(visible_text) = 0
          => encoded = Raise("Visible text cannot be empty for encoding.")
       /\ Len(visible_text) > MAX_VISIBLE_LENGTH
          => encoded = Raise("Visible text too long")
       /\ (Len(visible_text) # 0 /\ Len(visible_text) <= MAX_VISIBLE_LENGTH
           /\ Len(secret_message) > MAX_SECRET_LENGTH)
          => encoded = Raise("Secret message too long")

\* A secret above the limit, with a rule that does not resolve and a method
\* that does not exist.
C8_Witness ==
    /\ AfterEncode /\ Len(secret_message) > MAX_SECRET_LENGTH
    /\ visible_text = HelloWorld
    /\ injection_point = "word-0" /\ method = "base64"
    /\ encoded = Raise("Secret message too long")

ScenarioC9 ==
    /\ AfterEncode /\ injection_point = "word-2" /\ method = "zero-width"
    /\ visible_text = QuickBrownFox /\ secret_message = SecretX

\* The zero-width carrier of "x" (0x78 = 01111000).
CarrierOfX == <<8203, 8204, 8204, 8204, 8204, 8203, 8203, 8203>>

\* C9 as stated: the carrier follows "quick" and the offset is 15.
C9_ScenarioOffset15 ==
    ScenarioC9
    => /\ encoded.ok
       /\ encoded.text = Text("The quick") \o CarrierOfX \o Text(" brown fox")
       /\ find_injection_point(visible_text, injection_point) = Return(15)

\* C9 amended: the carrier follows "quick" and the offset is 9.
C9_ScenarioOffset9 ==
    ScenarioC9
    => /\ encoded.ok
       /\ encoded.text = Text("The quick") \o CarrierOfX \o Text(" brown fox")
       /\ find_injection_point(visible_text, injection_point) = Return(9)

\* The scenario has been run.
C9_Witness == ScenarioC9 /\ encoded.ok /\ Len(encoded.text) = 19 + 8

\* The decimal form of an integer, as written in a rule.
RECURSIVE Decimal(_)
Decimal(n) ==
    IF n < 0 THEN "-" \o Decimal(0 - n)
    ELSE IF n < 10 THEN SubSeq("0123456789", n + 1, n + 1)
    ELSE Decimal(n \div 10) \o SubSeq("0123456789", (n % 10) + 1, (n % 10) + 1)

\* The numbers tried in word-n and char-n.
RuleNumbers == (0 - 1)..(MaxVisibleLen + 2)

\* The number of whitespace-separated words: the positions where a word
\* starts.
WordCount(text) ==
    Cardinality({i \in 1..Len(text) :
                    text[i] \notin Whitespace
                    /\ (i = 1 \/ text[i - 1] \in Whitespace)})

\* The cases in which C10 says the resolver fails.
MustFail(text, rule) ==
    \/ rule = "first-space" /\ Count(text, Whitespace) = 0
    \/ \E n \in RuleNumbers :
          \/ rule = "word-" \o Decimal(n) /\ (n < 1 \/ n > WordCount(text))
          \/ rule = "char-" \o Decimal(n) /\ (n < 0 \/ n > Len(text))

RulesC10 ==
    {"first-space", "end"}
    \cup {"word-" \o Decimal(n) : n \in RuleNumbers}
    \cup {"char-" \o Decimal(n) : n \in RuleNumbers}

\* C10: on a visible text within the limit, the resolver fails for
\* first-space, end, word-n and char-n exactly in the stated cases, and an
\* encode whose rule fails returns no encoded text.  The visible text never
\* changes, so the resolver is tried on all the rules where the session
\* starts, and on the rule of the call after each encode.
C10_ResolverFailures ==
    Len(visible_text) <= MAX_VISIBLE_LENGTH
    => /\ (encoded = NoResult /\ decoded = NoResult)
          => \A rule \in RulesC10 :
                ~find_injection_point(visible_text, rule).ok
                    <=> MustFail(visible_text, rule)
       /\ (AfterEncode /\ injection_point \in RulesC10)
          => /\ ~find_injection_point(visible_text, injection_point).ok
                    <=> MustFail(visible_text, injection_point)
             /\ MustFail(visible_text, injection_point) => ~encoded.ok

\* An encode with word-2 on a text of one word, which fails, while word-1
\* and char-n with n = len resolve.
C10_Witness ==
    /\ AfterEncode /\ injection_point = "word-2" /\ WordCount(visible_text) = 1
    /\ Len(visible_text) = 2
    /\ encoded = Raise("Invalid word number")
    /\ find_injection_point(visible_text, "word-1").ok
    /\ find_injection_point(visible_text, "char-2") = Return(2)

\* A decimal integer as written in a rule: digits, after an optional minus.
IsDecimal(s) ==
    LET body == IF Len(s) > 0 /\ SubSeq(s, 1, 1) = "-"
                THEN SubSeq(s, 2, Len(s)) ELSE s
    IN  /\ Len(body) > 0
        /\ \A i \in 1..Len(body) : SubSeq(body, i, i) \in Digits

\* The rule text is exactly first-space, end, word-<n> or char-<n>.
WellFormed(rule) ==
    \/ rule \in {"first-space", "end"}
    \/ /\ Len(rule) > 5
       /\ SubSeq(rule, 1, 5) \in {"word-", "char-"}
       /\ IsDecimal(SubSeq(rule, 6, Len(rule)))

\* C11 as stated: an encode (with inputs that pass the checks) whose rule
\* text is not of one of the four forms fails, and the resolver returns no
\* offset for it.
C11_MalformedRuleRejected ==
    (AfterEncode /\ validate(visible_text, secret_message).ok
     /\ ~WellFormed(injection_point))
    => /\ ~encoded.ok
       /\ ~find_injection_point(visible_text, injection_point).ok

\* The index of the last character of the n-th word of text: the n-th
\* position that holds a non-whitespace character followed by whitespace or
\* by the end of the text.
NthWordEnd(text, n) ==
    LET ends == {i \in 1..Len(text) :
                    text[i] \notin Whitespace
                    /\ (i = Len(text) \/ text[i + 1] \in Whitespace)}
    IN  CHOOSE i \in ends : Cardinality({j \in ends : j <= i}) = n

\* C12: on a visible text within the limit, word-n with 1 <= n <= word count
\* resolves to the offset right after the last character of the n-th word,
\* and an encode with that rule splices the carrier there.  The resolver is
\* tried on every n where the session starts, and on the rule of the call
\* after each encode.
C12_WordPlacement ==
    Len(visible_text) <= MAX_VISIBLE_LENGTH
    => /\ (encoded = NoResult /\ decoded = NoResult)
          => \A n \in 1..WordCount(visible_text) :
                find_injection_point(visible_text, "word-" \o Decimal(n))
                    = Return(NthWordEnd(visible_text, n))
       /\ (AfterEncode /\ encoded.ok)
          => \A n \in 1..WordCount(visible_text) :
                injection_point = "word-" \o Decimal(n)
                => LET pos  == NthWordEnd(visible_text, n)
                       grow == Len(encoded.text) - Len(visible_text)
                   IN  /\ SubSeq(encoded.text, 1, pos)
                              = SubSeq(visible_text, 1, pos)
                       /\ SubSeq(encoded.text, pos + grow + 1, Len(encoded.text))
                              = SubSeq(visible_text, pos + 1, Len(visible_text))
                       /\ \A i \in (pos + 1)..(pos + grow) :
                              encoded.text[i] \in CarrierAlphabet(method)

\* An encode after the third word of "b ab b", whose third word repeats the
\* first and occurs inside the second.
C12_Witness ==
    /\ AfterEncode /\ encoded.ok /\ injection_point = "word-3"
    /\ visible_text = RepeatedWords
    /\ find_injection_point(visible_text, injection_point) = Return(6)
    /\ Len(encoded.text) > 6
    /\ SubSeq(encoded.text, 1, 6) = visible_text

\* The bit a zero-width carrier stands for: U+200B is 0, U+200C is 1.
BitOfCarrier(c) == IF c = 8204 THEN 1 ELSE 0

\* The value of the 8 carriers of carriers that start after offset, read
\* big-endian.
ByteAt(carriers, offset) ==
    128 * BitOfCarrier(carriers[offset + 1])
    + 64 * BitOfCarrier(carriers[offset + 2])
    + 32 * BitOfCarrier(carriers[offset + 3])
    + 16 * BitOfCarrier(carriers[offset + 4])
    + 8 * BitOfCarrier(carriers[offset + 5])
    + 4 * BitOfCarrier(carriers[offset + 6])
    + 2 * BitOfCarrier(carriers[offset + 7])
    + BitOfCarrier(carriers[offset + 8])

\* C13: a zero-width decode returns floor(k / 8) characters for a text with k
\* characters U+200B/U+200C, the i-th being the big-endian value (in 0..255)
\* of carriers 8i+1..8i+8 in order of appearance; the other characters and a
\* trailing group of fewer than 8 carriers change nothing.
C13_ZeroWidthDecode ==
    (decoded # NoResult /\ decode_method = "zero-width")
    => LET carriers == SelectSeq(text_with_hidden_message,
                                 LAMBDA c : c \in CarrierAlphabet("zero-width"))
           full     == SubSeq(carriers, 1, 8 * (Len(carriers) \div 8))
       IN  /\ decoded.ok
           /\ Len(decoded.secret) = Len(carriers) \div 8
           /\ \A i \in 1..Len(decoded.secret) :
                 /\ decoded.secret[i] = ByteAt(carriers, 8 * (i - 1))
                 /\ decoded.secret[i] \in 0..255
           /\ decode_zero_width(carriers) = decoded.secret
           /\ decode_zero_width(full) = decoded.secret

\* A zero-width decode of a text that holds other characters and 8 carriers
\* followed by an incomplete group.
C13_Witness ==
    /\ decoded # NoResult /\ decode_method = "zero-width" /\ decoded.ok
    /\ Count(text_with_hidden_message, CarrierAlphabet("zero-width")) > 8
    /\ Count(text_with_hidden_message, CarrierAlphabet("zero-width")) % 8 # 0
    /\ Len(text_with_hidden_message)
          > Count(text_with_hidden_message, CarrierAlphabet("zero-width"))
    /\ Len(decoded.secret) = 1

\* The characters of secret that are at most U+007F, in order.
AsciiPart(secret) == SelectSeq(secret, LAMBDA c : c <= 127)

\* A tag encode of inputs that pass the checks, with a rule that resolves,
\* succeeds; the encoded text is the visible text with one character
\* TAG_BASE + c per ASCII character c of the secret, in order, inserted at
\* the resolved offset, and is the visible text itself when the secret has
\* no ASCII character.
TagEncodeSkips ==
    (encoded # NoResult /\ method = "tag"
     /\ validate(visible_text, secret_message).ok
     /\ find_injection_point(visible_text, injection_point).ok)
    => LET pos   == find_injection_point(visible_text, injection_point).pos
           ascii == AsciiPart(secret_message)
       IN  /\ encoded.ok
           /\ Len(encoded.text) = Len(visible_text) + Len(ascii)
           /\ SubSeq(encoded.text, 1, pos) = SubSeq(visible_text, 1, pos)
           /\ SubSeq(encoded.text, pos + 1, pos + Len(ascii))
                  = [i \in 1..Len(ascii) |-> TAG_BASE + ascii[i]]
           /\ SubSeq(encoded.text, pos + Len(ascii) + 1, Len(encoded.text))
                  = SubSeq(visible_text, pos + 1, Len(visible_text))
           /\ decode_tag(SubSeq(encoded.text, pos + 1, pos + Len(ascii))) = ascii
           /\ (ascii = <<>>) => (encoded.text = visible_text)

\* C14 as stated: tag encoding skips and never fails, and a tag decode of the
\* encoded text returns the ASCII subsequence of the secret, for every visible
\* text that passes the checks.
C14_TagSkipsAnyVisible ==
    /\ TagEncodeSkips
    /\ (AfterDecodeEncoded /\ method = "tag" /\ decode_method = "tag")
       => decoded = Decoded(AsciiPart(secret_message))

\* C14 amended: the same, the tag decode of the encoded text returning the
\* ASCII subsequence of the secret when the visible text holds no tag
\* character.
C14_TagSkips ==
    /\ TagEncodeSkips
    /\ (AfterDecodeEncoded /\ method = "tag" /\ decode_method = "tag"
        /\ Count(visible_text, CarrierAlphabet("tag")) = 0)
       => decoded = Decoded(AsciiPart(secret_message))

\* A tag encode of U+0100 followed by "a" into a visible text without tag
\* characters, decoded with the tag method: one carrier, one character back.
C14_Witness ==
    /\ AfterDecodeEncoded /\ method = "tag" /\ decode_method = "tag"
    /\ secret_message = <<256, 97>>
    /\ Count(visible_text, CarrierAlphabet("tag")) = 0
    /\ Len(encoded.text) = Len(visible_text) + 1
    /\ encoded.warning = <<256>>
    /\ decoded = Decoded(<<97>>)

TypeOK ==
    /\ encoded.ok \in BOOLEAN
    /\ decoded.ok \in BOOLEAN

====
